---------------------------- MODULE Spec2Model ----------------------------
(***************************************************************************)
(* Model of the Forex Factory calendar filter                              *)
(* (src/src/forex_calendar_filter.py): the text classifier, the stable uid *)
(* synthesis, the multi-week aggregation loop of filter_enhanced_events    *)
(* and the fetch / filter / save pipeline of main.                         *)
(*                                                                         *)
(* Text is a sequence of one-character strings.  An icalendar component is *)
(* a function from the property names it carries to their values, so that  *)
(* Python's  'uid' in event  is  "uid" \in DOMAIN event.                   *)
(***************************************************************************)
EXTENDS Integers, Sequences, FiniteSets, TLC

(***************************************************************************)
(* Characters, str.lower() and the character classes of the re module.     *)
(***************************************************************************)
UpperCase ==
    {"A", "B", "C", "D", "E", "F", "G", "H", "I", "J", "K", "L", "M",
     "N", "O", "P", "Q", "R", "S", "T", "U", "V", "W", "X", "Y", "Z"}

DigitChars ==
    <<"0", "1", "2", "3", "4", "5", "6", "7", "8", "9">>

\* the lower-case letter of each upper-case letter
ToLower ==
    [A |-> "a", B |-> "b", C |-> "c", D |-> "d", E |-> "e", F |-> "f",
     G |-> "g", H |-> "h", I |-> "i", J |-> "j", K |-> "k", L |-> "l",
     M |-> "m", N |-> "n", O |-> "o", P |-> "p", Q |-> "q", R |-> "r",
     S |-> "s", T |-> "t", U |-> "u", V |-> "v", W |-> "w", X |-> "x",
     Y |-> "y", Z |-> "z"]

\* str.lower() on one character
LowerChar(c) == IF c \in UpperCase THEN ToLower[c] ELSE c

\* str.lower()
lower(s) == [i \in DOMAIN s |-> LowerChar(s[i])]

\* the class \w of the re module
WordChars ==
    {"A", "B", "C", "D", "E", "F", "G", "H", "I", "J", "K", "L", "M",
     "N", "O", "P", "Q", "R", "S", "T", "U", "V", "W", "X", "Y", "Z",
     "a", "b", "c", "d", "e", "f", "g", "h", "i", "j", "k", "l", "m",
     "n", "o", "p", "q", "r", "s", "t", "u", "v", "w", "x", "y", "z",
     "0", "1", "2", "3", "4", "5", "6", "7", "8", "9", "_"}

IsWordChar(c) == c \in WordChars

\* the class \s of the re module
SpaceChars == {" ", "\t", "\n", "\r", "\f"}

IsSpace(c) == c \in SpaceChars

(***************************************************************************)
(* The regular expressions the program uses: literals, \s*, \s+ and \b.    *)
(***************************************************************************)
SStar == [t |-> "s*", c |-> ""]

SPlus == [t |-> "s+", c |-> ""]

WordB == [t |-> "b", c |-> ""]

Lit(s) == [i \in DOMAIN s |-> [t |-> "lit", c |-> s[i]]]

\* \b at position j (between s[j-1] and s[j])
AtWordBoundary(s, j) ==
    LET before == j > 1 /\ IsWordChar(s[j - 1])
        after  == j <= Len(s) /\ IsWordChar(s[j])
    IN  before # after

RECURSIVE MatchHere(_, _, _, _)
\* whether pattern p from element i on matches text s starting at position j
MatchHere(p, i, s, j) ==
    IF i > Len(p) THEN TRUE
    ELSE CASE p[i].t = "lit" ->
                /\ j <= Len(s)
                /\ s[j] = p[i].c
                /\ MatchHere(p, i + 1, s, j + 1)
           [] p[i].t = "b" ->
                /\ AtWordBoundary(s, j)
                /\ MatchHere(p, i + 1, s, j)
           [] p[i].t = "s*" ->
                \/ MatchHere(p, i + 1, s, j)
                \/ /\ j <= Len(s)
                   /\ IsSpace(s[j])
                   /\ MatchHere(p, i, s, j + 1)
           [] p[i].t = "s+" ->
                /\ j <= Len(s)
                /\ IsSpace(s[j])
                /\ \/ MatchHere(p, i + 1, s, j + 1)
                   \/ MatchHere(p, i, s, j + 1)

\* re.search(pattern, text) is not None
re_search(p, s) == \E j \in 1..(Len(s) + 1) : MatchHere(p, 1, s, j)

RED_FOLDER_PATTERNS ==
    <<
       Lit(<<"i", "m", "p", "a", "c", "t", ":">>) \o <<SStar>> \o Lit(<<"h", "i", "g", "h">>),
       Lit(<<"h", "i", "g", "h">>) \o <<SStar>> \o Lit(<<"i", "m", "p", "a", "c", "t">>),
       Lit(<<"r", "e", "d">>) \o <<SStar>> \o Lit(<<"f", "o", "l", "d", "e", "r">>),
       Lit(<<"r", "e", "d">>) \o <<SStar>> \o Lit(<<"i", "m", "p", "a", "c", "t">>),
       <<WordB>> \o Lit(<<"r", "e", "d">>) \o <<WordB>>
    >>

MEDIUM_IMPACT_PATTERNS ==
    <<
       Lit(<<"i", "m", "p", "a", "c", "t", ":">>) \o <<SStar>> \o Lit(<<"m", "e", "d", "i", "u", "m">>),
       Lit(<<"m", "e", "d", "i", "u", "m">>) \o <<SStar>> \o Lit(<<"i", "m", "p", "a", "c", "t">>),
       Lit(<<"y", "e", "l", "l", "o", "w">>) \o <<SStar>> \o Lit(<<"f", "o", "l", "d", "e", "r">>),
       Lit(<<"o", "r", "a", "n", "g", "e">>) \o <<SStar>> \o Lit(<<"f", "o", "l", "d", "e", "r">>),
       <<WordB>> \o Lit(<<"y", "e", "l", "l", "o", "w">>) \o <<WordB>>,
       <<WordB>> \o Lit(<<"o", "r", "a", "n", "g", "e">>) \o <<WordB>>
    >>

VIP_KEYWORDS ==
    <<
       <<WordB>> \o Lit(<<"t", "r", "u", "m", "p">>) \o <<WordB>>,
       <<WordB>> \o Lit(<<"f", "o", "m", "c">>) \o <<WordB>>,
       <<WordB>> \o Lit(<<"o", "p", "e", "c">>) \o <<WordB>>,
       Lit(<<"p", "r", "e", "s", "i", "d", "e", "n", "t">>) \o <<SPlus>> \o Lit(<<"l", "a", "g", "a", "r", "d", "e">>),
       Lit(<<"l", "a", "g", "a", "r", "d", "e">>) \o <<WordB>>,
       Lit(<<"g", "o", "v">>) \o <<SPlus>> \o Lit(<<"b", "a", "i", "l", "e", "y">>),
       Lit(<<"g", "o", "v", "e", "r", "n", "o", "r">>) \o <<SPlus>> \o Lit(<<"b", "a", "i", "l", "e", "y">>),
       <<WordB>> \o Lit(<<"b", "a", "i", "l", "e", "y">>) \o <<WordB>>
    >>

(***************************************************************************)
(* The events of the feed and of the unit tests.                            *)
(***************************************************************************)
\* Scenario A: a red folder event without a native uid
EvGdp ==
    [summary     |-> <<"G", "D", "P">>,
     description |-> <<"I", "m", "p", "a", "c", "t", ":", " ", "H", "i", "g", "h">>,
     dtstart     |-> 1]

\* medium impact without a VIP keyword: excluded
EvHousing ==
    [summary     |-> <<"H", "o", "u", "s", "i", "n", "g">>,
     description |-> <<"I", "m", "p", "a", "c", "t", ":", " ", "M", "e", "d", "i", "u", "m">>,
     dtstart     |-> 1]

\* an event the feed gave a uid of its own; it matches both rule tiers
EvTrump ==
    [summary     |-> <<"T", "r", "u", "m", "p">>,
     description |-> <<"r", "e", "d">>,
     dtstart     |-> 2,
     uid         |-> <<"f", "f", "-", "1">>]

\* two VIP keyword events without start time and without native uid, whose
\* summary and location differ while summary + location is the same text
EvOpecA ==
    [summary     |-> <<"O", "P", "E", "C", "-", "a">>,
     location    |-> <<"b">>]

EvOpecB ==
    [summary     |-> <<"O", "P", "E", "C", "-">>,
     location    |-> <<"a", "b">>]

Events == {EvGdp, EvHousing, EvTrump, EvOpecA, EvOpecB}

\* stands for a property that is not set
Absent == <<"-">>

TestSummaries ==
    {Absent,
     <<"F", "O", "M", "C">>,
     <<"O", "P", "E", "C", "-", "a">>,
     <<"O", "P", "E", "C", "-">>}

TestDescriptions ==
    {Absent,
     <<"I", "m", "p", "a", "c", "t", ":", " ", "M", "e", "d", "i", "u", "m">>,
     <<"I", "m", "p", "a", "c", "t", ":", " ", "L", "o", "w">>,
     <<"I", "m", "p", "a", "c", "t", ":", " ", "H", "i", "g", "h">>}

\* 0 stands for no start time
TestStarts == {0, 1}

TestLocations == {Absent, <<"b">>, <<"a", "b">>}

TestUids == {Absent, <<"f", "f", "-", "1">>}

\* event = Event(); event.add(...) for each property given
MakeEvent(summary, description, dtstart, location, uid) ==
    (IF summary = Absent THEN <<>> ELSE [summary |-> summary])
    @@ (IF description = Absent THEN <<>> ELSE [description |-> description])
    @@ (IF dtstart = 0 THEN <<>> ELSE [dtstart |-> dtstart])
    @@ (IF location = Absent THEN <<>> ELSE [location |-> location])
    @@ (IF uid = Absent THEN <<>> ELSE [uid |-> uid])

\* the event under test
TestEvents ==
    {MakeEvent(s, d, t, l, u) :
        s \in TestSummaries, d \in TestDescriptions, t \in TestStarts,
        l \in TestLocations, u \in TestUids}

\* the event its uid is compared with: one without a native uid
OtherEvents ==
    {MakeEvent(s, Absent, t, l, Absent) :
        s \in TestSummaries, t \in TestStarts, l \in TestLocations}

(***************************************************************************)
(* The classifier.                                                         *)
(***************************************************************************)
\* text_to_check: summary and description, each followed by one space
text_to_check(event) ==
    (IF "summary" \in DOMAIN event THEN event["summary"] \o <<" ">> ELSE <<>>)
    \o (IF "description" \in DOMAIN event THEN event["description"] \o <<" ">> ELSE <<>>)

\* text_lower = text_to_check.lower(); whether re.search finds any of the
\* patterns in it
AnyPatternMatches(patterns, text) ==
    LET text_lower == lower(text)
    IN  \E k \in DOMAIN patterns : re_search(patterns[k], text_lower)

\* the texts of the events above
KnownTexts == {text_to_check(e) : e \in Events \cup TestEvents}

\* the searches of the three pattern lists in each of these texts, each text
\* paired with the outcome of its search
RedFolderSearches ==
    {<<text, AnyPatternMatches(RED_FOLDER_PATTERNS, text)>> : text \in KnownTexts}

VipKeywordSearches ==
    {<<text, AnyPatternMatches(VIP_KEYWORDS, text)>> : text \in KnownTexts}

MediumImpactSearches ==
    {<<text, AnyPatternMatches(MEDIUM_IMPACT_PATTERNS, text)>> : text \in KnownTexts}

\* the outcome of the search of the patterns in the text: looked up in
\* searches when the text is among those above, made otherwise
Searched(patterns, searches, text) ==
    IF text \in KnownTexts THEN <<text, TRUE>> \in searches
    ELSE AnyPatternMatches(patterns, text)

is_red_folder_event(event) ==
    Searched(RED_FOLDER_PATTERNS, RedFolderSearches, text_to_check(event))

is_vip_keyword_event(event) ==
    Searched(VIP_KEYWORDS, VipKeywordSearches, text_to_check(event))

\* should_include_event that lets every event through
should_include_event_any(event) == TRUE

\* should_include_event under the stricter policy: a VIP keyword counts only
\* next to a medium impact marker
should_include_event_medium_vip(event) ==
    IF is_red_folder_event(event) THEN TRUE
    ELSE IF /\ Searched(MEDIUM_IMPACT_PATTERNS, MediumImpactSearches,
                        text_to_check(event))
            /\ is_vip_keyword_event(event) THEN TRUE
    ELSE FALSE

should_include_event(event) ==
    IF is_red_folder_event(event) THEN TRUE
    ELSE IF is_vip_keyword_event(event) THEN TRUE
    ELSE FALSE

(***************************************************************************)
(* The stable uid.                                                         *)
(***************************************************************************)
RECURSIVE Decimal(_)
\* the decimal digits of a natural number
Decimal(n) ==
    IF n < 10 THEN <<DigitChars[n + 1]>>
    ELSE Decimal(n \div 10) \o <<DigitChars[(n % 10) + 1]>>

\* str(event.get('dtstart', '')): the text rendering of the start time, which
\* the icalendar property type wraps in its own name and brackets
StrDtstart(event) ==
    IF "dtstart" \in DOMAIN event
    THEN <<"vDDDTypes(">> \o Decimal(event["dtstart"]) \o <<")">>
    ELSE <<>>

\* str(event.get(key, '')) for a text property
StrGet(event, key) == IF key \in DOMAIN event THEN event[key] ELSE <<>>

\* uid_source = f"{summary}{dtstart}{location}"
uid_source(event) ==
    StrGet(event, "summary") \o StrDtstart(event) \o StrGet(event, "location")

\* hashlib.md5(...).hexdigest(), taken as collision-free: the digest stands
\* for exactly the bytes that were hashed
md5_hexdigest(s) == <<"md5<">> \o s \o <<">">>

generate_stable_uid(event) ==
    IF "uid" \in DOMAIN event THEN event["uid"]
    ELSE md5_hexdigest(uid_source(event)) \o <<"@forex-factory-high-impact">>

(***************************************************************************)
(* The events and the calendar texts the feed can deliver.                 *)
(***************************************************************************)
\* the most VEVENTs the texts handed to one run hold together
MaxEvents == 4

\* main asks for three weeks: fetch_multi_week_calendar_data(weeks=3)
weeks == 3

\* the sequences over S of length at most n
SeqsUpTo(S, n) == UNION {[1..k -> S] : k \in 0..n}

\* a calendar text: whether Calendar.from_ical accepts it, and the VEVENT
\* blocks it holds
WellFormed(vevents) == [wellformed |-> TRUE, vevents |-> vevents]

\* a text cut off after its first event: from_ical raises ValueError
Malformed == [wellformed |-> FALSE, vevents |-> <<EvGdp>>]

\* the VEVENTs a text contributes to the bound
Size(data) == IF data.wellformed THEN Len(data.vevents) ELSE 0

\* the events of evs that week i holds, when event k belongs to week week_of[k]
EventsOfWeek(evs, week_of, i) ==
    LET before == Cardinality({k \in DOMAIN evs : week_of[k] < i})
        within == Cardinality({k \in DOMAIN evs : week_of[k] = i})
    IN  SubSeq(evs, before + 1, before + within)

\* the list of w calendar texts of which those with parses[i] parse, holding
\* the events evs spread over them in order
CalendarDataList(w, parses, evs, week_of) ==
    [i \in 1..w |-> IF parses[i] THEN WellFormed(EventsOfWeek(evs, week_of, i))
                    ELSE Malformed]

\* week_of spreads the events over parseable weeks and keeps their order
SpreadsInOrder(parses, week_of) ==
    /\ \A k \in DOMAIN week_of : parses[week_of[k]]
    /\ \A k \in DOMAIN week_of : k > 1 => week_of[k - 1] <= week_of[k]

(***************************************************************************)
(* filter_enhanced_events                                                  *)
(***************************************************************************)
VARIABLES
    calendar_data_list,   \* the argument: one calendar text per week
    week_num,             \* enumerate(calendar_data_list, 1)
    original_cal,         \* original_cal.walk() of the week being filtered
    comp_idx,             \* position of the walk in original_cal
    filtered_cal,         \* the VEVENTs added to the output calendar
    seen_uids,
    total_events,
    total_included,
    red_folder_count,
    vip_keyword_count,
    pc,                   \* where the program stands
    url_idx,              \* main: the entry of week_urls fetched next
    output_file,          \* main: the lines stored under OUTPUT_FILE
    exit_status,          \* main: what it returns; -1 while it runs
    test_event,           \* unit tests: the Event objects under test
    returned              \* unit tests: what each call made so far returned

filter_vars ==
    <<calendar_data_list, week_num, original_cal, comp_idx, filtered_cal,
      seen_uids, total_events, total_included, red_folder_count,
      vip_keyword_count>>

main_vars == <<url_idx, output_file, exit_status>>

test_vars == <<test_event, returned>>

vars == <<filter_vars, pc, main_vars, test_vars>>

\* Calendar.from_ical(calendar_data).walk(): the calendar itself, then its events
from_ical_walk(calendar_data) ==
    <<[name |-> "VCALENDAR", props |-> <<>>]>>
    \o [i \in DOMAIN calendar_data.vevents |->
          [name |-> "VEVENT", props |-> calendar_data.vevents[i]]]

\* EnsureUid that synthesizes the uid of every event, native uid or not
EnsureUidAlways(component) ==
    [component EXCEPT
       !.props = ("uid" :> (md5_hexdigest(uid_source(component.props))
                            \o <<"@forex-factory-high-impact">>))
                 @@ component.props]

\* if 'uid' not in component: component.add('uid', generate_stable_uid(component))
EnsureUid(component) ==
    IF "uid" \in DOMAIN component.props THEN component
    ELSE [component EXCEPT
            !.props = component.props @@ ("uid" :> generate_stable_uid(component.props))]

\* the duplicate check left out
NotSeenAlways(event_uid, seen) == TRUE

\* event_uid not in seen_uids
NotSeen(event_uid, seen) == event_uid \notin seen

\* add_component that puts the newest event first
add_component_first(cal, component) == <<component>> \o cal

\* filtered_cal.add_component(component)
add_component(cal, component) == Append(cal, component)

\* the locals of filter_enhanced_events the loop body updates
Locals ==
    [filtered_cal      |-> filtered_cal,
     seen_uids         |-> seen_uids,
     total_events      |-> total_events,
     total_included    |-> total_included,
     red_folder_count  |-> red_folder_count,
     vip_keyword_count |-> vip_keyword_count]

\* the locals before the loop
InitialLocals ==
    [filtered_cal      |-> <<>>,
     seen_uids         |-> {},
     total_events      |-> 0,
     total_included    |-> 0,
     red_folder_count  |-> 0,
     vip_keyword_count |-> 0]

\* the body of  if should_include_event(component):  with the VIP keyword
\* count under an  if  of its own in place of the  elif
include_event_counting_both(st, component) ==
    LET with_uid  == EnsureUid(component)
        event_uid == with_uid.props["uid"]
    IN  IF NotSeen(event_uid, st.seen_uids)
        THEN [st |-> [st EXCEPT
                        !.seen_uids = @ \cup {event_uid},
                        !.filtered_cal = add_component(@, with_uid),
                        !.total_included = @ + 1,
                        !.red_folder_count =
                            IF is_red_folder_event(with_uid.props)
                            THEN @ + 1 ELSE @,
                        !.vip_keyword_count =
                            IF is_vip_keyword_event(with_uid.props)
                            THEN @ + 1 ELSE @],
              component |-> with_uid]
        ELSE [st |-> st, component |-> with_uid]

\* the body of  if should_include_event(component):  the uid is ensured, and
\* an event whose uid is new is added and counted
include_event(st, component) ==
    LET with_uid  == EnsureUid(component)
        event_uid == with_uid.props["uid"]
    IN  IF NotSeen(event_uid, st.seen_uids)
        THEN [st |-> [st EXCEPT
                        !.seen_uids = @ \cup {event_uid},
                        !.filtered_cal = add_component(@, with_uid),
                        !.total_included = @ + 1,
                        !.red_folder_count =
                            IF is_red_folder_event(with_uid.props)
                            THEN @ + 1 ELSE @,
                        !.vip_keyword_count =
                            IF ~is_red_folder_event(with_uid.props)
                               /\ is_vip_keyword_event(with_uid.props)
                            THEN @ + 1 ELSE @],
              component |-> with_uid]
        ELSE [st |-> st, component |-> with_uid]

\* the loop body with  total_included += 1  outside the inclusion test
process_vevent_counting_all(st, component) ==
    LET counted == [st EXCEPT !.total_events = @ + 1]
    IN  IF should_include_event(component.props)
        THEN include_event(counted, component)
        ELSE [st |-> [counted EXCEPT !.total_included = @ + 1],
              component |-> component]

\* the loop body for one VEVENT: the locals and the component after it
process_vevent(st, component) ==
    LET counted == [st EXCEPT !.total_events = @ + 1]
    IN  IF should_include_event(component.props)
        THEN include_event(counted, component)
        ELSE [st |-> counted, component |-> component]

RECURSIVE WalkFrom(_, _, _)
\* for component in original_cal.walk(), from position i on
WalkFrom(st, cal, i) ==
    IF i > Len(cal) THEN st
    ELSE WalkFrom(IF cal[i].name = "VEVENT"
                  THEN process_vevent(st, cal[i]).st ELSE st,
                  cal, i + 1)

RECURSIVE FilterFrom(_, _, _)
\* for week_num, calendar_data in enumerate(list, 1), from week w on
FilterFrom(st, list, w) ==
    IF w > Len(list) THEN st
    ELSE FilterFrom(IF list[w].wellformed
                    THEN WalkFrom(st, from_ical_walk(list[w]), 1) ELSE st,
                    list, w + 1)

\* the locals filter_enhanced_events(list) ends with
filter_result(list) == FilterFrom(InitialLocals, list, 1)

\* the state before the first week is read
InitFilter(list) ==
    /\ calendar_data_list = list
    /\ week_num = 1
    /\ original_cal = <<>>
    /\ comp_idx = 1
    /\ filtered_cal = InitialLocals.filtered_cal
    /\ seen_uids = InitialLocals.seen_uids
    /\ total_events = InitialLocals.total_events
    /\ total_included = InitialLocals.total_included
    /\ red_folder_count = InitialLocals.red_folder_count
    /\ vip_keyword_count = InitialLocals.vip_keyword_count

\* for week_num, calendar_data in enumerate(...): from_ical succeeds
ParseWeek ==
    /\ pc = "for_week"
    /\ week_num <= Len(calendar_data_list)
    /\ calendar_data_list[week_num].wellformed
    /\ original_cal' = from_ical_walk(calendar_data_list[week_num])
    /\ comp_idx' = 1
    /\ pc' = "walk"
    /\ UNCHANGED <<calendar_data_list, week_num, filtered_cal, seen_uids,
                   total_events, total_included, red_folder_count,
                   vip_keyword_count>>
    /\ UNCHANGED <<main_vars, test_vars>>

\* the parse failure caught outside the loop: the remaining weeks are lost
ParseWeekFailsAborts ==
    /\ pc = "for_week"
    /\ week_num <= Len(calendar_data_list)
    /\ ~calendar_data_list[week_num].wellformed
    /\ pc' = "returned"
    /\ UNCHANGED <<filter_vars, main_vars, test_vars>>

\* from_ical raises: except Exception: logger.warning(...); continue
ParseWeekFails ==
    /\ pc = "for_week"
    /\ week_num <= Len(calendar_data_list)
    /\ ~calendar_data_list[week_num].wellformed
    /\ week_num' = week_num + 1
    /\ UNCHANGED <<calendar_data_list, original_cal, comp_idx, filtered_cal,
                   seen_uids, total_events, total_included, red_folder_count,
                   vip_keyword_count, pc>>
    /\ UNCHANGED <<main_vars, test_vars>>

\* a component of the walk that is no VEVENT
SkipComponent ==
    /\ pc = "walk"
    /\ comp_idx <= Len(original_cal)
    /\ original_cal[comp_idx].name # "VEVENT"
    /\ comp_idx' = comp_idx + 1
    /\ UNCHANGED <<calendar_data_list, week_num, original_cal, filtered_cal,
                   seen_uids, total_events, total_included, red_folder_count,
                   vip_keyword_count, pc>>
    /\ UNCHANGED <<main_vars, test_vars>>

\* the loop body for the VEVENT at comp_idx
ProcessEvent ==
    /\ pc = "walk"
    /\ comp_idx <= Len(original_cal)
    /\ original_cal[comp_idx].name = "VEVENT"
    /\ \E r \in {process_vevent(Locals, original_cal[comp_idx])} :
          /\ original_cal' = [original_cal EXCEPT ![comp_idx] = r.component]
          /\ filtered_cal' = r.st.filtered_cal
          /\ seen_uids' = r.st.seen_uids
          /\ total_events' = r.st.total_events
          /\ total_included' = r.st.total_included
          /\ red_folder_count' = r.st.red_folder_count
          /\ vip_keyword_count' = r.st.vip_keyword_count
    /\ comp_idx' = comp_idx + 1
    /\ UNCHANGED <<calendar_data_list, week_num, pc>>
    /\ UNCHANGED <<main_vars, test_vars>>

\* the walk is exhausted: on to the next week
EndOfWeek ==
    /\ pc = "walk"
    /\ comp_idx > Len(original_cal)
    /\ week_num' = week_num + 1
    /\ pc' = "for_week"
    /\ UNCHANGED <<calendar_data_list, original_cal, comp_idx, filtered_cal,
                   seen_uids, total_events, total_included, red_folder_count,
                   vip_keyword_count>>
    /\ UNCHANGED <<main_vars, test_vars>>

\* the list is exhausted: return filtered_cal
ReturnFiltered ==
    /\ pc = "for_week"
    /\ week_num > Len(calendar_data_list)
    /\ pc' = "returned"
    /\ UNCHANGED filter_vars
    /\ UNCHANGED <<main_vars, test_vars>>

(***************************************************************************)
(* main: fetch_multi_week_calendar_data, filter_enhanced_events,           *)
(* save_calendar.                                                          *)
(***************************************************************************)
\* calendar.to_ical(): the calendar's header, its events, its footer
to_ical(cal) ==
    <<[line |-> "BEGIN:VCALENDAR", props |-> <<>>]>>
    \o [i \in DOMAIN cal |-> [line |-> "VEVENT", props |-> cal[i].props]]
    \o <<[line |-> "END:VCALENDAR", props |-> <<>>]>>

\* what an earlier run left under OUTPUT_FILE
OldFile == to_ical(<<EnsureUid([name |-> "VEVENT", props |-> EvGdp])>>)

\* the VEVENTs fetched so far
Fetched(list) ==
    IF list = <<>> THEN 0
    ELSE LET RECURSIVE Sum(_)
             Sum(i) == IF i = 0 THEN 0 ELSE Sum(i - 1) + Size(list[i])
         IN  Sum(Len(list))

\* what requests.get can return for one url
Responses(list) ==
    {WellFormed(v) : v \in SeqsUpTo(Events, MaxEvents - Fetched(list))} \cup {Malformed}

\* fetch_calendar_data(primary_url) returns: all_calendar_data.append(data)
FetchPrimary ==
    /\ pc = "fetch"
    /\ url_idx = 1
    /\ \E data \in Responses(<<>>) :
          /\ calendar_data_list' = <<data>>
          /\ week_num' = 1
    /\ url_idx' = 2
    /\ UNCHANGED <<original_cal, comp_idx, filtered_cal, seen_uids,
                   total_events, total_included, red_folder_count,
                   vip_keyword_count, pc, output_file, exit_status>>
    /\ UNCHANGED test_vars

\* fetch_calendar_data(primary_url) raises: "Cannot proceed without current
\* week data" reaches main, which returns 1
FetchPrimaryFails ==
    /\ pc = "fetch"
    /\ url_idx = 1
    /\ pc' = "exit"
    /\ exit_status' = 1
    /\ UNCHANGED <<filter_vars, url_idx, output_file>>
    /\ UNCHANGED test_vars

\* for i, url in enumerate(week_urls[1:weeks], 2): the fetch returns
FetchWeek ==
    /\ pc = "fetch"
    /\ url_idx \in 2..weeks
    /\ \E data \in Responses(calendar_data_list) :
          calendar_data_list' = Append(calendar_data_list, data)
    /\ url_idx' = url_idx + 1
    /\ UNCHANGED <<week_num, original_cal, comp_idx, filtered_cal, seen_uids,
                   total_events, total_included, red_folder_count,
                   vip_keyword_count, pc, output_file, exit_status>>
    /\ UNCHANGED test_vars

\* the fetch of a further week raises: logger.warning(...); continue
FetchWeekFails ==
    /\ pc = "fetch"
    /\ url_idx \in 2..weeks
    /\ url_idx' = url_idx + 1
    /\ UNCHANGED <<filter_vars, pc, output_file, exit_status>>
    /\ UNCHANGED test_vars

\* return all_calendar_data; main calls filter_enhanced_events with it
CallFilter ==
    /\ pc = "fetch"
    /\ url_idx > weeks
    /\ pc' = "for_week"
    /\ UNCHANGED <<filter_vars, main_vars>>
    /\ UNCHANGED test_vars

\* save_calendar: open(output_file, 'wb') succeeds and truncates the file
SaveOpen ==
    /\ pc = "returned"
    /\ output_file' = <<>>
    /\ pc' = "opened"
    /\ UNCHANGED <<filter_vars, url_idx, exit_status>>
    /\ UNCHANGED test_vars

\* open raises OSError: save_calendar re-raises, main returns 1
SaveOpenFails ==
    /\ pc = "returned"
    /\ pc' = "exit"
    /\ exit_status' = 1
    /\ UNCHANGED <<filter_vars, url_idx, output_file>>
    /\ UNCHANGED test_vars

\* f.write(calendar.to_ical()) and the close succeed: main returns 0
SaveWrite ==
    /\ pc = "opened"
    /\ output_file' = to_ical(filtered_cal)
    /\ pc' = "exit"
    /\ exit_status' = 0
    /\ UNCHANGED <<filter_vars, url_idx>>
    /\ UNCHANGED test_vars

\* the write or the flush on close raises OSError after n of the lines
\* reached the file: save_calendar re-raises, main returns 1
SaveWriteFails ==
    /\ pc = "opened"
    /\ \E n \in 0..(Len(to_ical(filtered_cal)) - 1) :
          output_file' = SubSeq(to_ical(filtered_cal), 1, n)
    /\ pc' = "exit"
    /\ exit_status' = 1
    /\ UNCHANGED <<filter_vars, url_idx>>
    /\ UNCHANGED test_vars

(***************************************************************************)
(* The classifier and the uid synthesis called on their own, as the unit   *)
(* tests call them: uid1 and uid2 for one event, the uid of another event, *)
(* and the inclusion verdict.                                              *)
(***************************************************************************)
\* uid1 = generate_stable_uid(event)
GenerateUid1 ==
    /\ pc = "test"
    /\ "uid1" \notin DOMAIN returned
    /\ returned' = returned @@ ("uid1" :> generate_stable_uid(test_event[1]))
    /\ UNCHANGED <<filter_vars, pc, main_vars, test_event>>

\* uid2 = generate_stable_uid(event)
GenerateUid2 ==
    /\ pc = "test"
    /\ "uid1" \in DOMAIN returned
    /\ "uid2" \notin DOMAIN returned
    /\ returned' = returned @@ ("uid2" :> generate_stable_uid(test_event[1]))
    /\ UNCHANGED <<filter_vars, pc, main_vars, test_event>>

\* generate_stable_uid of the other event
GenerateUidOther ==
    /\ pc = "test"
    /\ "other" \notin DOMAIN returned
    /\ returned' = returned @@ ("other" :> generate_stable_uid(test_event[2]))
    /\ UNCHANGED <<filter_vars, pc, main_vars, test_event>>

\* should_include_event(event)
ShouldInclude ==
    /\ pc = "test"
    /\ "include" \notin DOMAIN returned
    /\ returned' = returned @@ ("include" :> should_include_event(test_event[1]))
    /\ UNCHANGED <<filter_vars, pc, main_vars, test_event>>

(***************************************************************************)
(* The specifications.                                                     *)
(***************************************************************************)
\* main is not running
MainIdle ==
    /\ url_idx = 1
    /\ output_file = OldFile
    /\ exit_status = -1

\* no unit test is running
TestIdle ==
    /\ test_event = <<>>
    /\ returned = <<>>

\* filter_enhanced_events called with any list of at most weeks calendar
\* texts that hold at most MaxEvents parseable events together
Init ==
    /\ \E w \in 0..weeks, n \in 0..MaxEvents :
          \E parses \in [1..w -> BOOLEAN], evs \in [1..n -> Events],
             week_of \in [1..n -> 1..w] :
              /\ SpreadsInOrder(parses, week_of)
              /\ InitFilter(CalendarDataList(w, parses, evs, week_of))
    /\ pc = "for_week"
    /\ MainIdle
    /\ TestIdle

Next ==
    \/ ParseWeek
    \/ ParseWeekFails
    \/ SkipComponent
    \/ ProcessEvent
    \/ EndOfWeek
    \/ ReturnFiltered

Spec == Init /\ [][Next]_vars

\* main
InitMain ==
    /\ InitFilter(<<>>)
    /\ pc = "fetch"
    /\ MainIdle
    /\ TestIdle

NextMain ==
    \/ FetchPrimary
    \/ FetchPrimaryFails
    \/ FetchWeek
    \/ FetchWeekFails
    \/ CallFilter
    \/ Next
    \/ SaveOpen
    \/ SaveOpenFails
    \/ SaveWrite
    \/ SaveWriteFails

SpecMain == InitMain /\ [][NextMain]_vars

\* the unit tests of generate_stable_uid and should_include_event
InitTest ==
    /\ InitFilter(<<>>)
    /\ pc = "test"
    /\ MainIdle
    /\ test_event \in TestEvents \X OtherEvents
    /\ returned = <<>>

NextTest ==
    \/ GenerateUid1
    \/ GenerateUid2
    \/ GenerateUidOther
    \/ ShouldInclude

SpecTest == InitTest /\ [][NextTest]_vars


(***************************************************************************)
(* What the claims speak about.                                            *)
(***************************************************************************)
\* the classifier's verdict is RedFolder or VipKeyword
NotPlain(e) == is_red_folder_event(e) \/ is_vip_keyword_event(e)

\* the identifier the aggregation knows an event by
Identifier(e) == generate_stable_uid(e)

\* an event as it is once its uid is ensured
WithUid(e) == IF "uid" \in DOMAIN e THEN e ELSE e @@ ("uid" :> Identifier(e))

RECURSIVE EventsOfWeeks(_, _)
\* the events of the parseable texts among the first w of the list, in order
EventsOfWeeks(list, w) ==
    IF w = 0 THEN <<>>
    ELSE EventsOfWeeks(list, w - 1)
         \o (IF list[w].wellformed THEN list[w].vevents ELSE <<>>)

\* the events the loop body has run for so far, as the texts gave them
ProcessedEvents ==
    EventsOfWeeks(calendar_data_list, week_num - 1)
    \o (IF pc = "walk"
        THEN SubSeq(calendar_data_list[week_num].vevents, 1, comp_idx - 2)
        ELSE <<>>)

\* position i holds the first non-Plain event of its identifier
IsFirstSeen(seq, i) ==
    /\ NotPlain(seq[i])
    /\ \A j \in 1..(i - 1) :
          NotPlain(seq[j]) => Identifier(seq[j]) # Identifier(seq[i])

RECURSIVE FirstSeenUpTo(_, _)
\* the first-seen non-Plain events among the first n of seq, in order, each
\* with its uid
FirstSeenUpTo(seq, n) ==
    IF n = 0 THEN <<>>
    ELSE FirstSeenUpTo(seq, n - 1)
         \o (IF IsFirstSeen(seq, n) THEN <<WithUid(seq[n])>> ELSE <<>>)

\* the properties of the VEVENTs of the output calendar, in order
OutputEvents == [i \in DOMAIN filtered_cal |-> filtered_cal[i].props]

\* some non-Plain event processed so far repeats an earlier identifier
DuplicateDropped ==
    \E i \in DOMAIN ProcessedEvents :
        NotPlain(ProcessedEvents[i]) /\ ~IsFirstSeen(ProcessedEvents, i)

\* the last text of the list parses and holds only Plain events, at least one
LastWeekAllPlain ==
    /\ calendar_data_list # <<>>
    /\ LET last == calendar_data_list[Len(calendar_data_list)]
       IN  /\ last.wellformed
           /\ last.vevents # <<>>
           /\ \A i \in DOMAIN last.vevents : ~NotPlain(last.vevents[i])

\* the list without its last text
AllButLast == SubSeq(calendar_data_list, 1, Len(calendar_data_list) - 1)

(***************************************************************************)
(* The claims.                                                             *)
(***************************************************************************)
\* C1: after every step of the aggregation loop no two VEVENTs of the output
\* calendar share a uid, and the uids of the output are exactly seen_uids.
C1_DistinctUids ==
    /\ \A i, j \in DOMAIN filtered_cal :
          i # j => filtered_cal[i].props["uid"] # filtered_cal[j].props["uid"]
    /\ {filtered_cal[i].props["uid"] : i \in DOMAIN filtered_cal} = seen_uids

\* C1 witness: two events are in the output and a duplicate was turned away
C1_Witness ==
    /\ Len(filtered_cal) >= 2
    /\ DuplicateDropped

\* C2: the output is in first-seen order: it holds, in the order the weeks
\* and their events were read, the first non-Plain event of every
\* identifier; a later event of the same identifier changes nothing.
C2_FirstSeenOrder ==
    OutputEvents = FirstSeenUpTo(ProcessedEvents, Len(ProcessedEvents))

\* C2 witness: a later event of another content was dropped for an
\* identifier the output holds, and an event was added after that
C2_Witness ==
    /\ Len(filtered_cal) >= 2
    /\ \E i, j \in DOMAIN ProcessedEvents :
          /\ i < j
          /\ j < Len(ProcessedEvents)
          /\ NotPlain(ProcessedEvents[i])
          /\ NotPlain(ProcessedEvents[j])
          /\ ProcessedEvents[i] # ProcessedEvents[j]
          /\ Identifier(ProcessedEvents[i]) = Identifier(ProcessedEvents[j])
          /\ IsFirstSeen(ProcessedEvents, Len(ProcessedEvents))

\* C3: every event of the output has a verdict other than Plain, in every
\* state of the aggregation.
C3_NoPlainInOutput ==
    \A i \in DOMAIN filtered_cal : NotPlain(filtered_cal[i].props)

\* C3 witness: a Plain event was read and the output is not empty
C3_Witness ==
    /\ filtered_cal # <<>>
    /\ \E i \in DOMAIN ProcessedEvents : ~NotPlain(ProcessedEvents[i])

\* C4: when the last text of the list holds only Plain events, the run ends
\* with the output, the seen uids and the included, red folder and VIP
\* counters of the run on the list without it; total_events is larger by
\* the number of events of that text.
C4_PlainWeekChangesOnlyTotal ==
    (pc = "returned" /\ LastWeekAllPlain) =>
        LET alone == filter_result(AllButLast)
            plain == calendar_data_list[Len(calendar_data_list)].vevents
        IN  /\ filtered_cal = alone.filtered_cal
            /\ seen_uids = alone.seen_uids
            /\ total_included = alone.total_included
            /\ red_folder_count = alone.red_folder_count
            /\ vip_keyword_count = alone.vip_keyword_count
            /\ total_events = alone.total_events + Len(plain)

\* C4 witness: a run ended whose last text held only Plain events and whose
\* earlier texts put an event into the output
C4_Witness ==
    /\ pc = "returned"
    /\ LastWeekAllPlain
    /\ filtered_cal # <<>>

\* the text of summary, start time and location that stands for a record;
\* a property that is not set counts as empty text
Triple(e) == <<StrGet(e, "summary"), StrDtstart(e), StrGet(e, "location")>>

\* the number of parseable texts of the list that hold event e
WeeksHolding(e) ==
    Cardinality({w \in DOMAIN calendar_data_list :
                    /\ calendar_data_list[w].wellformed
                    /\ \E i \in DOMAIN calendar_data_list[w].vevents :
                          calendar_data_list[w].vevents[i] = e})

\* the number of output events that are copies of e: same summary, start
\* time and location
Copies(e) ==
    Cardinality({i \in DOMAIN filtered_cal : Triple(filtered_cal[i].props) = Triple(e)})

\* C5: at the end of a run, a non-Plain record without native uid that
\* appears in two or more weeks has exactly one copy in the output; it is
\* counted as included once (the included counter is the number of output
\* events) and as seen once per occurrence.
C5_OneCopyOfRepeatedRecord ==
    pc = "returned" =>
        \A e \in Events :
            ("uid" \notin DOMAIN e /\ NotPlain(e) /\ WeeksHolding(e) >= 2) =>
                /\ Copies(e) = 1
                /\ total_included = Len(filtered_cal)
                /\ total_events = Len(ProcessedEvents)

\* C6: for events without native uid, generate_stable_uid returns the same
\* identifier on a repeated call, and different identifiers for two events
\* whose (summary, start time, location) triples differ.
C6_StableAndDistinctUids ==
    /\ ({"uid1", "uid2"} \subseteq DOMAIN returned
        /\ "uid" \notin DOMAIN test_event[1]) =>
          returned["uid1"] = returned["uid2"]
    /\ ({"uid1", "other"} \subseteq DOMAIN returned
        /\ "uid" \notin DOMAIN test_event[1]
        /\ "uid" \notin DOMAIN test_event[2]
        /\ Triple(test_event[1]) # Triple(test_event[2])) =>
          returned["uid1"] # returned["other"]

\* the event states medium impact
StatesMediumImpact(e) ==
    Searched(MEDIUM_IMPACT_PATTERNS, MediumImpactSearches, text_to_check(e))

RawEvent(p) == calendar_data_list[week_num].vevents[p - 1]

\* C8: while a week is walked, every event the loop body has run for is as
\* the text gave it, except that a non-Plain event that lacked a uid now
\* carries the synthesized one (added or rejected as duplicate alike); a uid
\* that was present is as it was, a Plain event is untouched, and so is
\* every event the loop has not reached.
C8_OnlyMissingUidIsAdded ==
    pc = "walk" =>
        \A p \in 2..Len(original_cal) :
            original_cal[p].props =
                IF p < comp_idx /\ NotPlain(RawEvent(p)) /\ "uid" \notin DOMAIN RawEvent(p)
                THEN RawEvent(p) @@ ("uid" :> (md5_hexdigest(uid_source(RawEvent(p)))
                                               \o <<"@forex-factory-high-impact">>))
                ELSE RawEvent(p)

\* C8 witness: an event that lacked a uid carries one although it was
\* rejected as a duplicate (the output does not hold it), and the loop has
\* passed a Plain event and a non-Plain event that came with a uid
C8_Witness ==
    /\ pc = "walk"
    /\ \E p \in 2..(comp_idx - 1) :
          /\ "uid" \notin DOMAIN RawEvent(p)
          /\ "uid" \in DOMAIN original_cal[p].props
          /\ \A i \in DOMAIN filtered_cal : filtered_cal[i] # original_cal[p]
    /\ \E p \in 2..(comp_idx - 1) : ~NotPlain(RawEvent(p))
    /\ \E p \in 2..(comp_idx - 1) :
          NotPlain(RawEvent(p)) /\ "uid" \in DOMAIN RawEvent(p)

\* C9: a run of main that fails returns a nonzero status and leaves under
\* the output path either what was there before or the complete new
\* calendar.
C9_FailureLeavesNoPartialFile ==
    (pc = "exit" /\ exit_status # 0) =>
        \/ output_file = OldFile
        \/ output_file = to_ical(filtered_cal)

\* the texts of the list that parse, in order
Parseable(list) == SelectSeq(list, LAMBDA data : data.wellformed)

\* C10: a text that fails to parse has no effect: the run ends, all weeks
\* read, with the output, the seen uids and all counters of the run on the
\* list without the texts that fail to parse.
C10_UnparseableWeekIsAbsent ==
    pc = "returned" =>
        /\ week_num = Len(calendar_data_list) + 1
        /\ Locals = filter_result(Parseable(calendar_data_list))

\* C10 witness: a run ended whose list held a text that fails to parse
\* before a text whose event reached the output
C10_Witness ==
    /\ pc = "returned"
    /\ filtered_cal # <<>>
    /\ \E w \in DOMAIN calendar_data_list :
          /\ ~calendar_data_list[w].wellformed
          /\ EventsOfWeeks(calendar_data_list, w) = <<>>

\* the number of output events that satisfy P
OutputCount(P(_)) ==
    Cardinality({i \in DOMAIN filtered_cal : P(filtered_cal[i].props)})

\* the event matches a VIP keyword and no red folder pattern
VipKeywordOnly(e) == is_vip_keyword_event(e) /\ ~is_red_folder_event(e)

\* C11: after every step of the aggregation, the included counter is the
\* sum of the red folder and VIP counters and the number of output events,
\* and is at most the seen counter; every output event is counted in
\* exactly one category: the red folder counter is the number of output
\* events that match a red folder pattern (those that match a VIP keyword
\* too among them), the VIP counter the number of the others.
C11_CounterInvariant ==
    /\ total_included = red_folder_count + vip_keyword_count
    /\ total_included = Len(filtered_cal)
    /\ total_included <= total_events
    /\ red_folder_count = OutputCount(is_red_folder_event)
    /\ vip_keyword_count = OutputCount(VipKeywordOnly)

\* C11 witness: the output holds an event that matches both a red folder
\* pattern and a VIP keyword and an event that matches a VIP keyword only,
\* and an event was seen that is not in the output
C11_Witness ==
    /\ \E i \in DOMAIN filtered_cal :
          /\ is_red_folder_event(filtered_cal[i].props)
          /\ is_vip_keyword_event(filtered_cal[i].props)
    /\ \E i \in DOMAIN filtered_cal : VipKeywordOnly(filtered_cal[i].props)
    /\ vip_keyword_count >= 1
    /\ total_included < total_events

=============================================================================
